---- MODULE Spec2Model ----
(***************************************************************************)
(* A model of the MCP tool server (src/server/app): the tool endpoints,    *)
(* the idempotency store, the pending-action store, the policy gate and    *)
(* the audit log.  Every request handler runs in its own worker thread     *)
(* with its own database session, so a handler is a sequence of atomic     *)
(* steps, one per database round trip that another request can interleave  *)
(* with (a committed write, or a read whose result the handler acts on     *)
(* later).  The endpoints serve the requests that require_api_key has      *)
(* admitted; the admission itself is SpecRate.                             *)
(* A query of customers is taken in one step with the write that follows   *)
(* it, since no endpoint deletes a customer; seed_if_empty's count and     *)
(* insert are one step.  Each specification says what the server's         *)
(* surroundings do: in Spec, SpecTicket and SpecConfirm the audit file is  *)
(* writable and nothing but the endpoints touches the database; the other  *)
(* specifications add one fault or outside change each (an audit file that *)
(* cannot be written, a process crash, a deleted customer, a row of        *)
(* another version, a restart with another policy), taken between the      *)
(* steps of the handlers.                                                  *)
(***************************************************************************)
EXTENDS Integers, Sequences, FiniteSets, TLC

\* ---------------------------------------------------------------- bounds
\* Worker threads serving requests at the same time.
MaxProcs == 2
\* Requests served in one behaviour of one endpoint group (SpecTicket,
\* SpecConfirm), and in one behaviour of all the endpoints together (Spec).
MaxCalls == 3
MaxCallsAll == 2
\* The clock (datetime.utcnow) runs from 0 to MaxTime.
MaxTime == 1
\* Identifiers uuid4 can draw for pending actions.
MaxPending == 2

Procs == 1..MaxProcs
PendingIds == 1..MaxPending

\* ---------------------------------------------------------------- text
\* A str is a sequence of one-character strings.
Whitespace == {" "}

RECURSIVE LStrip(_)
LStrip(s) == IF s # <<>> /\ Head(s) \in Whitespace THEN LStrip(Tail(s)) ELSE s

RECURSIVE RStrip(_)
RStrip(s) ==
    IF s # <<>> /\ s[Len(s)] \in Whitespace THEN RStrip(SubSeq(s, 1, Len(s) - 1)) ELSE s

\* str.strip()
Strip(s) == RStrip(LStrip(s))

LowerChar(c) ==
    CASE c = "A" -> "a" [] c = "B" -> "b" [] c = "C" -> "c" [] c = "E" -> "e"
      [] c = "H" -> "h" [] c = "L" -> "l" [] c = "M" -> "m" [] c = "N" -> "n"
      [] OTHER -> c

\* str.lower()
Lower(s) == [i \in 1..Len(s) |-> LowerChar(s[i])]

\* q in name
IsSubstring(q, s) ==
    \E i \in 0..(Len(s) - Len(q)) : SubSeq(s, i + 1, i + Len(q)) = q

\* datetime.isoformat() + "Z"
IsoZ(t) == <<t, "Z">>

\* ---------------------------------------------------------------- values
\* An Optional value: None, or Some(x).
None == <<>>
Some(x) == <<x>>
Active == <<"A", "c", "t", "i", "v", "e">>

SEARCH == "search_customer"
CREATE == "create_ticket"
UPDATE == "update_customer_status"
SEND == "send_message"
IMPACT == "get_incident_impact"
CONFIRM == "confirm"

DEFAULT_ALLOWED == {SEARCH, CREATE, UPDATE, SEND, IMPACT}

\* The customers seed_if_empty inserts, in order of their autoincrement ids.
SeedCustomers ==
    <<[name |-> <<"A", "C", "M", "E", " ", "A", "B">>, status |-> Active],
      [name |-> <<"N", "o", "r", "d", "i", "c">>, status |-> Active],
      [name |-> <<"B", "e", "t", "a">>, status |-> Active]>>

\* ---------------------------------------------------------------- policy
\* The values of the ALLOWED_TOOLS environment variable considered, each as the
\* list raw.split(",") of its items: unset (""), " , send_message", and
\* "search_customer ,".
AllowedToolsEnv ==
    { << <<>> >>,
      << <<" ">>, <<" ", SEND>> >>,
      << <<SEARCH, " ">>, <<>> >> }

\* x.strip() of one item: "" when nothing is left, a tool name when one name is.
ItemName(item) ==
    LET w == Strip(item)
    IN  IF w = <<>> THEN "" ELSE IF Len(w) = 1 THEN w[1] ELSE "?"

allowed_tools(raw) ==
    IF Len(raw) = 1 /\ ItemName(raw[1]) = ""
    THEN DEFAULT_ALLOWED
    ELSE {ItemName(raw[i]) : i \in 1..Len(raw)} \ {""}

assert_allowed_broken(raw, tool) == TRUE

\* TRUE when assert_allowed returns, FALSE when it raises PermissionError.
assert_allowed(raw, tool) == tool \in allowed_tools(raw)

\* ---------------------------------------------------------------- JSON
\* json.dumps of a create_ticket response: the text, as the list of its
\* members in the order the dict holds them.
IdempotencyRecord_dumps(obj) ==
    << <<"ticket",
         << <<"id", obj.ticket.id>>,
            <<"customer_id", obj.ticket.customer_id>>,
            <<"title", obj.ticket.title>>,
            <<"priority", obj.ticket.priority>>,
            <<"created_at", obj.ticket.created_at>> >> >> >>

\* The value of member k of a JSON object text.
Member(s, k) == (CHOOSE i \in 1..Len(s) : s[i][1] = k)

IdempotencyRecord_loads(s) ==
    LET t == s[Member(s, "ticket")][2]
    IN  [ticket |-> [id |-> t[Member(t, "id")][2],
                     customer_id |-> t[Member(t, "customer_id")][2],
                     title |-> t[Member(t, "title")][2],
                     priority |-> t[Member(t, "priority")][2],
                     created_at |-> t[Member(t, "created_at")][2]]]

\* json.dumps of payload.model_dump() of an UpdateCustomerStatusIn.
PendingAction_dumps(obj) ==
    << <<"customer_id", obj.customer_id>>,
       <<"new_status", obj.new_status>>,
       <<"confirm", obj.confirm>> >>

PendingAction_loads(s) ==
    [customer_id |-> s[Member(s, "customer_id")][2],
     new_status |-> s[Member(s, "new_status")][2],
     confirm |-> s[Member(s, "confirm")][2]]

\* ---------------------------------------------------------------- inputs
\* Request bodies that pass the schema (title of 3 characters or more,
\* new_status of 2 or more, query of 1 or more).  NoCustomer is an id no
\* customer has.
NoCustomer == Len(SeedCustomers) + 1

CreateTicketInputs ==
    { [customer_id |-> 1, title |-> <<" ", "L", "a", "g", " ">>, description |-> <<" ">>,
       priority |-> <<"H", "i", "g", "h", " ">>],
      [customer_id |-> NoCustomer, title |-> <<"o", "u", "t">>, description |-> <<>>,
       priority |-> <<"l", "o", "w">>] }

\* The Idempotency-Key header: absent (None) or empty, or a key.
IdempotencyKeys == {"", "k1", "k2"}

UpdateStatusInputs ==
    { [customer_id |-> c, new_status |-> s, confirm |-> b] :
        c \in {1}, s \in {<<" ", "V", "I", "P">>, <<"O", "f", "f">>}, b \in BOOLEAN }
    \cup { [customer_id |-> NoCustomer, new_status |-> <<"O", "f", "f">>, confirm |-> b] :
             b \in BOOLEAN }

ConfirmInputs == [pending_action_id : PendingIds, approve : BOOLEAN]

SearchInputs == { [query |-> <<" ", "A", "c">>], [query |-> <<"z">>] }

SendInputs == { [channel |-> "#support", message |-> "m"] }

ImpactInputs == { [incident_id |-> "INC-1"] }

\* ---------------------------------------------------------------- state
VARIABLES
    customers,   \* table customers: id -> [name, status]
    tickets,     \* table tickets: the rows in order of their ids
    idem,        \* table idempotency_records: the rows in order of insertion
    pending,     \* table pending_actions: id -> row
    audit,       \* audit.log: the lines written
    now,         \* datetime.utcnow()
    env,         \* os.environ["ALLOWED_TOOLS"]
    sink,        \* audit.log can be opened and appended to
    times,       \* _request_times[API_KEY]: the times of the requests admitted
    req,         \* each worker thread's request: position, inputs, locals, response
    out,         \* the request that ended last, with its response (pc "done"),
                 \* unanswered (pc "crashed") or admitted (pc "admitted")
    left,        \* requests still to arrive
    firstResp    \* history: key -> the response of the call that executed under it

vars == <<customers, tickets, idem, pending, audit, now, env, sink, times, req, out, left, firstResp>>

IdleReq ==
    [pc |-> "idle", tool |-> "", key |-> "", inp |-> <<>>, loc |-> <<>>,
     code |-> 0, body |-> <<>>, late |-> FALSE]

\* The database and the worker threads of a server that has just started,
\* with `calls` requests to come.
InitDb(calls) ==
    /\ customers = <<>>
    /\ tickets = <<>>
    /\ idem = <<>>
    /\ pending = <<>>
    /\ audit = <<>>
    /\ times = <<>>
    /\ now = 0
    /\ env \in AllowedToolsEnv
    /\ req = [r \in Procs |-> IdleReq]
    /\ out = IdleReq
    /\ left = calls
    /\ firstResp = [k \in IdempotencyKeys \ {""} |-> None]

\* The server once it has started, with `calls` requests to come and its
\* audit file writable.
InitWith(calls) == InitDb(calls) /\ sink = TRUE

Init == InitWith(MaxCallsAll)

InitGroup == InitWith(MaxCalls)

\* ---------------------------------------------------------------- helpers
\* get_db: seed_if_empty(db) before the handler's body runs.
seed_if_empty(c) ==
    IF DOMAIN c = {} THEN [i \in 1..Len(SeedCustomers) |-> SeedCustomers[i]] ELSE c

\* log_event: one line, the event with its timestamp.
log_event(log, event) == Append(log, [ts |-> IsoZ(now)] @@ event)


\* A worker thread is free to take the next request.
Free(r) == req[r].pc = "idle" /\ left > 0

\* The handler returned (code 200) or raised (HTTPException, or an unhandled
\* exception: 500).
Returned(tool, key, inp, loc, code, body, late) ==
    [pc |-> "done", tool |-> tool, key |-> key, inp |-> inp, loc |-> loc,
     code |-> code, body |-> body, late |-> late]

Running(pc, tool, key, inp, loc, late) ==
    [pc |-> pc, tool |-> tool, key |-> key, inp |-> inp, loc |-> loc,
     code |-> 0, body |-> <<>>, late |-> late]

\* The response goes out and the worker thread is free again.
Return(r, response) ==
    /\ req' = [req EXCEPT ![r] = IdleReq]
    /\ out' = response

\* The handler goes on to its next database round trip.
Continue(r, running) ==
    /\ req' = [req EXCEPT ![r] = running]
    /\ out' = out

\* An exception no handler catches: the framework answers 500.
Unhandled(response, error) ==
    [response EXCEPT !.code = 500, !.body = [detail |-> error]]

\* log_event(...) and the handler's return.  log_event opens audit.log and
\* writes; nothing catches the OSError of a file that cannot be written.
LogReturn(r, event, response) ==
    IF sink
    THEN /\ audit' = log_event(audit, event)
         /\ Return(r, response)
    ELSE /\ audit' = audit
         /\ Return(r, Unhandled(response, "OSError"))

Denied(tool, key, inp) ==
    Returned(tool, key, inp, <<>>, 403, [detail |-> <<"Tool not allowed by policy", tool>>], FALSE)

CustomerOut(c, id) == [id |-> id, name |-> c[id].name, status |-> c[id].status]

\* ---------------------------------------------------------------- idempotency
get_cached_response_miss(rows, tool, key) == None

get_cached_response(rows, tool, key) ==
    LET hits == {i \in 1..Len(rows) : rows[i].tool = tool /\ rows[i].key = key}
    IN  IF hits = {}
        THEN None
        ELSE Some(IdempotencyRecord_loads(
                 rows[CHOOSE i \in hits : \A j \in hits : i <= j].response_json))

uq_tool_key_off(rows, tool, key) == FALSE

\* UniqueConstraint("tool", "key"): the INSERT of a second row is refused.
uq_tool_key(rows, tool, key) ==
    \E i \in 1..Len(rows) : rows[i].tool = tool /\ rows[i].key = key

\* ---------------------------------------------------------------- tools
\* POST /tools/search_customer
SearchCustomer(r) ==
    /\ Free(r)
    /\ \E payload \in SearchInputs :
         LET db == seed_if_empty(customers)
             q == Lower(Strip(payload.query))
             matches == {c \in DOMAIN db : IsSubstring(q, Lower(db[c].name))}
         IN  /\ customers' = db
             /\ IF ~assert_allowed(env, SEARCH)
                THEN /\ Return(r, Denied(SEARCH, "", payload))
                     /\ audit' = audit
                ELSE /\ LogReturn(r,
                            [tool |-> SEARCH, input |-> payload,
                             output |-> [count |-> Cardinality(matches)]],
                            Returned(SEARCH, "", payload, <<>>, 200,
                                     [results |-> {CustomerOut(db, c) : c \in matches}],
                                     FALSE))
    /\ left' = left - 1
    /\ UNCHANGED <<tickets, idem, pending, now, env, sink, times, firstResp>>

ReplayBody_unmarked(cached) ==
    [ticket |-> cached.ticket, idempotent_replay |-> FALSE]

\* {**cached, "idempotent_replay": True}
ReplayBody(cached) ==
    [ticket |-> cached.ticket, idempotent_replay |-> TRUE]

\* POST /tools/create_ticket, to the idempotency replay: the policy gate and
\* the lookup of the Idempotency-Key.
CreateTicketLookup(r) ==
    /\ Free(r)
    /\ \E payload \in CreateTicketInputs, key \in IdempotencyKeys :
         LET db == seed_if_empty(customers)
             cached == IF key # "" THEN get_cached_response(idem, CREATE, key) ELSE None
             late == key # "" /\ firstResp[key] # None
         IN  /\ customers' = db
             /\ IF ~assert_allowed(env, CREATE)
                THEN /\ Return(r, Denied(CREATE, key, payload))
                     /\ audit' = audit
                ELSE IF cached # None
                THEN /\ LogReturn(r,
                            [tool |-> CREATE, idempotency_replay |-> TRUE, key |-> key],
                            Returned(CREATE, key, payload, [t |-> 0], 200,
                                     ReplayBody(cached[1]), late))
                ELSE /\ audit' = audit
                     /\ Continue(r,
                            Running("ct_insert", CREATE, key, payload, [t |-> 0], late))
    /\ left' = left - 1
    /\ UNCHANGED <<tickets, idem, pending, now, env, sink, times, firstResp>>

KeySupplied_always(idempotency_key) == TRUE

\* if idempotency_key: (None and "" are both false)
KeySupplied(idempotency_key) == idempotency_key # ""

\* create_ticket, from the customer query to the commit of the ticket.
CreateTicketInsert(r) ==
    /\ req[r].pc = "ct_insert"
    /\ LET payload == req[r].inp
           key == req[r].key
           t == [id |-> Len(tickets) + 1,
                 customer_id |-> payload.customer_id,
                 title |-> Strip(payload.title),
                 description |-> Strip(payload.description),
                 priority |-> Lower(Strip(payload.priority)),
                 created_at |-> now]
           response == [ticket |-> [id |-> t.id,
                                    customer_id |-> t.customer_id,
                                    title |-> t.title,
                                    priority |-> t.priority,
                                    created_at |-> IsoZ(t.created_at)]]
       IN  IF payload.customer_id \notin DOMAIN customers
           THEN /\ Return(r,
                       Returned(CREATE, key, payload, [t |-> 0], 404,
                                [detail |-> "Customer not found"], req[r].late))
                /\ UNCHANGED <<tickets, audit>>
           ELSE /\ tickets' = Append(tickets, t)
                /\ IF KeySupplied(key)
                   THEN /\ Continue(r,
                               Running("ct_store", CREATE, key, payload,
                                       [t |-> t.id, response |-> response], req[r].late))
                        /\ audit' = audit
                   ELSE /\ LogReturn(r,
                               [tool |-> CREATE, input |-> payload,
                                output |-> [ticket_id |-> t.id]],
                               Returned(CREATE, key, payload, [t |-> t.id], 200,
                                        [ticket |-> response.ticket,
                                        idempotent_replay |-> FALSE], req[r].late))
    /\ UNCHANGED <<customers, idem, pending, now, env, sink, times, left, firstResp>>

\* create_ticket, store_response and the return.  The commit of a second row
\* for (tool, key) raises IntegrityError, which nothing catches.
CreateTicketStore(r) ==
    /\ req[r].pc = "ct_store"
    /\ LET payload == req[r].inp
           key == req[r].key
           response == req[r].loc.response
           rec == [id |-> Len(idem) + 1, tool |-> CREATE, key |-> key,
                   response_json |-> IdempotencyRecord_dumps(response),
                   created_at |-> now]
       IN  IF uq_tool_key(idem, CREATE, key)
           THEN /\ Return(r,
                       Returned(CREATE, key, payload, [t |-> req[r].loc.t], 500,
                                [detail |-> "IntegrityError"], req[r].late))
                /\ UNCHANGED <<idem, audit, firstResp>>
           ELSE /\ idem' = Append(idem, rec)
                /\ firstResp' = [firstResp EXCEPT ![key] = Some(response)]
                /\ LogReturn(r,
                       [tool |-> CREATE, input |-> payload,
                        output |-> [ticket_id |-> response.ticket.id]],
                       Returned(CREATE, key, payload, [t |-> req[r].loc.t], 200,
                                [ticket |-> response.ticket,
                                idempotent_replay |-> FALSE], req[r].late))
    /\ UNCHANGED <<customers, tickets, pending, now, env, sink, times, left>>

\* uuid.uuid4().hex: an identifier no pending action has.  Identifiers are
\* only compared, so the k-th one drawn is called k.
uuid4(rows) == Cardinality(DOMAIN rows) + 1

RequiresConfirmation_never(payload) == FALSE

RequiresConfirmation_always(payload) == TRUE

\* if not payload.confirm: the human-in-the-loop branch.
RequiresConfirmation(payload) == ~payload.confirm

CustomerMissing_never(db, customer_id) == FALSE

\* cust = db.query(Customer).filter_by(id=payload.customer_id).first()
\* if not cust
CustomerMissing(db, customer_id) == customer_id \notin DOMAIN db

\* POST /tools/update_customer_status, to its first commit: the pending
\* action (and the return), or the customer's new status.
UpdateCustomerStatus(r) ==
    /\ Free(r)
    /\ \E payload \in UpdateStatusInputs :
         LET db == seed_if_empty(customers)
             cid == payload.customer_id
         IN  IF ~assert_allowed(env, UPDATE)
             THEN /\ Return(r, Denied(UPDATE, "", payload))
                  /\ customers' = db
                  /\ UNCHANGED <<pending, audit>>
             ELSE IF CustomerMissing(db, cid)
             THEN /\ Return(r,
                         Returned(UPDATE, "", payload, <<>>, 404,
                                  [detail |-> "Customer not found"], FALSE))
                  /\ customers' = db
                  /\ UNCHANGED <<pending, audit>>
             ELSE IF RequiresConfirmation(payload)
             THEN LET pending_id == uuid4(pending)
                  IN
                    /\ pending_id \in PendingIds
                    /\ pending' = pending @@
                          (pending_id :> [action_type |-> UPDATE,
                                          payload_json |-> PendingAction_dumps(payload),
                                          status |-> "pending",
                                          created_at |-> now])
                    /\ customers' = db
                    /\ LogReturn(r,
                           [tool |-> UPDATE, input |-> payload,
                            output |-> [requires_confirmation |-> TRUE,
                                        pending_action_id |-> pending_id]],
                           Returned(UPDATE, "", payload, <<>>, 200,
                                    [requires_confirmation |-> TRUE,
                                    pending_action_id |-> Some(pending_id),
                                    customer |-> None], FALSE))
             ELSE /\ customers' = [db EXCEPT ![cid].status = Strip(payload.new_status)]
                  /\ Continue(r,
                         Running("ucs_refresh", UPDATE, "", payload, <<>>, FALSE))
                  /\ UNCHANGED <<pending, audit>>
    /\ left' = left - 1
    /\ UNCHANGED <<tickets, idem, now, env, sink, times, firstResp>>

\* update_customer_status with confirm=true, from db.refresh(cust) to the
\* return.  db.refresh of a row that is no longer there raises
\* InvalidRequestError.
UpdateRefresh(r) ==
    /\ req[r].pc = "ucs_refresh"
    /\ LET payload == req[r].inp
           cust == CustomerOut(customers, payload.customer_id)
       IN  IF payload.customer_id \notin DOMAIN customers
           THEN /\ Return(r, Unhandled(Returned(UPDATE, "", payload, <<>>, 200, <<>>, FALSE),
                                       "InvalidRequestError"))
                /\ audit' = audit
           ELSE LogReturn(r,
                  [tool |-> UPDATE, input |-> payload,
                   output |-> [customer_id |-> cust.id, status |-> cust.status]],
                  Returned(UPDATE, "", payload, <<>>, 200,
                           [requires_confirmation |-> FALSE,
                            pending_action_id |-> None,
                            customer |-> Some(cust)], FALSE))
    /\ UNCHANGED <<customers, tickets, idem, pending, now, env, sink, times, left, firstResp>>

\* ---------------------------------------------------------------- confirm
IsReject_never(payload) == FALSE

IsReject_always(payload) == TRUE

\* if not payload.approve
IsReject(payload) == ~payload.approve

AlreadyResolved_never(pa) == FALSE

\* if pa.status != "pending"
AlreadyResolved(pa) == pa.status # "pending"

\* POST /confirm/{pending_action_id}, the query of the pending action and the
\* two checks on it.  The session keeps the row as it read it.
ConfirmRead(r) ==
    /\ Free(r)
    /\ \E payload \in ConfirmInputs :
         LET id == payload.pending_action_id
         IN  /\ customers' = seed_if_empty(customers)
             /\ IF id \notin DOMAIN pending
                THEN Return(r,
                        Returned(CONFIRM, "", payload, <<>>, 404,
                                 [detail |-> "Pending action not found"], FALSE))
                ELSE IF AlreadyResolved(pending[id])
                THEN Return(r,
                        Returned(CONFIRM, "", payload, <<>>, 409,
                                 [detail |-> <<"Pending action already", pending[id].status>>],
                                 FALSE))
                ELSE Continue(r,
                        Running(IF IsReject(payload) THEN "cf_reject" ELSE "cf_approve",
                                CONFIRM, "", payload, [pa |-> pending[id]], FALSE))
    /\ left' = left - 1
    /\ UNCHANGED <<tickets, idem, pending, audit, now, env, sink, times, firstResp>>

\* confirm_action, the reject branch: UPDATE pending_actions SET status, commit.
ConfirmReject(r) ==
    /\ req[r].pc = "cf_reject"
    /\ LET payload == req[r].inp
           id == payload.pending_action_id
       IN  /\ pending' = [pending EXCEPT ![id].status = "rejected"]
           /\ LogReturn(r,
                  [tool |-> CONFIRM, pending_action_id |-> id, result |-> "rejected"],
                  Returned(CONFIRM, "", payload, <<>>, 200,
                           [ok |-> TRUE, status |-> "rejected"], FALSE))
    /\ UNCHANGED <<customers, tickets, idem, now, env, sink, times, left, firstResp>>

ApplyStatus_everyone(db, data) ==
    [c \in DOMAIN db |-> [db[c] EXCEPT !.status = Strip(data.new_status)]]

\* cust.status = data["new_status"].strip(), cust the row of data["customer_id"]
ApplyStatus(db, data) ==
    [db EXCEPT ![data.customer_id].status = Strip(data.new_status)]

MarkRejected_skipped(rows, id) == rows

\* pa.status = "rejected"; db.commit()
MarkRejected(rows, id) == [rows EXCEPT ![id].status = "rejected"]

\* confirm_action, the approve branch to its commit.
ConfirmApprove(r) ==
    /\ req[r].pc = "cf_approve"
    /\ LET payload == req[r].inp
           id == payload.pending_action_id
           pa == req[r].loc.pa
           data == PendingAction_loads(pa.payload_json)
       IN  IF pa.action_type = UPDATE
           THEN IF data.customer_id \notin DOMAIN customers
                THEN /\ pending' = MarkRejected(pending, id)
                     /\ Return(r,
                            Returned(CONFIRM, "", payload, <<>>, 404,
                                     [detail |-> "Customer not found during confirm"], FALSE))
                     /\ UNCHANGED customers
                ELSE /\ customers' = ApplyStatus(customers, data)
                     /\ pending' = [pending EXCEPT ![id].status = "confirmed"]
                     /\ Continue(r,
                            Running("cf_refresh", CONFIRM, "", payload,
                                    [customer_id |-> data.customer_id], FALSE))
           ELSE /\ pending' = [pending EXCEPT ![id].status = "rejected"]
                /\ Return(r,
                       Returned(CONFIRM, "", payload, <<>>, 400,
                                [detail |-> <<"Unknown action_type", pa.action_type>>], FALSE))
                /\ UNCHANGED customers
    /\ UNCHANGED <<tickets, idem, audit, now, env, sink, times, left, firstResp>>

\* confirm_action, from db.refresh(cust) to the return (InvalidRequestError
\* if the row is no longer there).
ConfirmRefresh(r) ==
    /\ req[r].pc = "cf_refresh"
    /\ LET payload == req[r].inp
           cust == CustomerOut(customers, req[r].loc.customer_id)
       IN  IF req[r].loc.customer_id \notin DOMAIN customers
           THEN /\ Return(r, Unhandled(Returned(CONFIRM, "", payload, <<>>, 200, <<>>, FALSE),
                                       "InvalidRequestError"))
                /\ audit' = audit
           ELSE LogReturn(r,
                  [tool |-> CONFIRM, pending_action_id |-> payload.pending_action_id,
                   result |-> "confirmed", customer_id |-> cust.id],
                  Returned(CONFIRM, "", payload, <<>>, 200,
                           [ok |-> TRUE, status |-> "confirmed", customer |-> cust], FALSE))
    /\ UNCHANGED <<customers, tickets, idem, pending, now, env, sink, times, left, firstResp>>

\* ---------------------------------------------------------------- the rest
\* POST /tools/send_message (no database session)
SendMessage(r) ==
    /\ Free(r)
    /\ \E payload \in SendInputs :
         IF ~assert_allowed(env, SEND)
         THEN /\ Return(r, Denied(SEND, "", payload))
              /\ audit' = audit
         ELSE /\ LogReturn(r,
                     [tool |-> SEND, input |-> payload, output |-> [sent |-> TRUE]],
                     Returned(SEND, "", payload, <<>>, 200,
                              [sent |-> TRUE, channel |-> payload.channel], FALSE))
    /\ left' = left - 1
    /\ UNCHANGED <<customers, tickets, idem, pending, now, env, sink, times, firstResp>>

\* POST /tools/get_incident_impact
GetIncidentImpact(r) ==
    /\ Free(r)
    /\ \E payload \in ImpactInputs :
         LET db == seed_if_empty(customers)
         IN  /\ customers' = db
             /\ IF ~assert_allowed(env, IMPACT)
                THEN /\ Return(r, Denied(IMPACT, "", payload))
                     /\ audit' = audit
                ELSE /\ LogReturn(r,
                            [tool |-> IMPACT, input |-> payload,
                             output |-> [count |-> Cardinality(DOMAIN db)]],
                            Returned(IMPACT, "", payload, <<>>, 200,
                                     [incident_id |-> payload.incident_id,
                                     affected_customers |->
                                     {CustomerOut(db, c) : c \in DOMAIN db}], FALSE))
    /\ left' = left - 1
    /\ UNCHANGED <<tickets, idem, pending, now, env, sink, times, firstResp>>

\* Time passes.
Tick ==
    /\ now < MaxTime
    /\ now' = now + 1
    /\ UNCHANGED <<customers, tickets, idem, pending, audit, env, sink, times, req, out, left, firstResp>>

Next ==
    \/ \E r \in Procs : SearchCustomer(r)
    \/ \E r \in Procs : CreateTicketLookup(r)
    \/ \E r \in Procs : CreateTicketInsert(r)
    \/ \E r \in Procs : CreateTicketStore(r)
    \/ \E r \in Procs : UpdateCustomerStatus(r)
    \/ \E r \in Procs : UpdateRefresh(r)
    \/ \E r \in Procs : ConfirmRead(r)
    \/ \E r \in Procs : ConfirmReject(r)
    \/ \E r \in Procs : ConfirmApprove(r)
    \/ \E r \in Procs : ConfirmRefresh(r)
    \/ \E r \in Procs : SendMessage(r)
    \/ \E r \in Procs : GetIncidentImpact(r)
    \/ Tick

Spec == Init /\ [][Next]_vars

\* The ticket endpoint alone: create_ticket neither reads nor writes what the
\* other endpoints write.
NextTicket ==
    \/ \E r \in Procs : CreateTicketLookup(r)
    \/ \E r \in Procs : CreateTicketInsert(r)
    \/ \E r \in Procs : CreateTicketStore(r)
    \/ Tick

SpecTicket == InitGroup /\ [][NextTicket]_vars

\* The human-in-the-loop endpoints alone: update_customer_status and confirm.
NextConfirm ==
    \/ \E r \in Procs : UpdateCustomerStatus(r)
    \/ \E r \in Procs : UpdateRefresh(r)
    \/ \E r \in Procs : ConfirmRead(r)
    \/ \E r \in Procs : ConfirmReject(r)
    \/ \E r \in Procs : ConfirmApprove(r)
    \/ \E r \in Procs : ConfirmRefresh(r)
    \/ Tick

SpecConfirm == InitGroup /\ [][NextConfirm]_vars

\* All the endpoints of a server whose audit file may be one that cannot be
\* written (a full disk, a read-only directory).
InitAuditDown == InitDb(MaxCallsAll) /\ sink \in BOOLEAN

SpecAuditDown == InitAuditDown /\ [][Next]_vars

\* The server process dies (kill, power loss) after create_ticket has
\* committed the ticket and before store_response runs: every request in
\* flight ends unanswered and the database stays as committed.
Crash ==
    /\ \E r \in Procs :
         /\ req[r].pc = "ct_store"
         /\ out' = [req[r] EXCEPT !.pc = "crashed"]
    /\ req' = [r \in Procs |-> IdleReq]
    /\ UNCHANGED <<customers, tickets, idem, pending, audit, now, env, sink, times, left, firstResp>>

\* The ticket endpoint of a server that can die and be started again on the
\* same database.
NextCrash ==
    \/ \E r \in Procs : CreateTicketLookup(r)
    \/ \E r \in Procs : CreateTicketInsert(r)
    \/ \E r \in Procs : CreateTicketStore(r)
    \/ Crash
    \/ Tick

SpecCrash == InitGroup /\ [][NextCrash]_vars

\* A customer row is deleted behind the server's back (no endpoint deletes
\* one): DELETE FROM customers WHERE id = c on app.db.  Only the customer the
\* requests name is taken away; an emptied table would be seeded again.
DeletableCustomers == {1}

DeleteCustomer(c) ==
    /\ c \in DOMAIN customers
    /\ customers' = [i \in DOMAIN customers \ {c} |-> customers[i]]
    /\ UNCHANGED <<tickets, idem, pending, audit, now, env, sink, times, req, out, left, firstResp>>

\* The human-in-the-loop endpoints on a database whose customers can go away.
NextOrphan ==
    \/ \E r \in Procs : UpdateCustomerStatus(r)
    \/ \E r \in Procs : UpdateRefresh(r)
    \/ \E r \in Procs : ConfirmRead(r)
    \/ \E r \in Procs : ConfirmReject(r)
    \/ \E r \in Procs : ConfirmApprove(r)
    \/ \E r \in Procs : ConfirmRefresh(r)
    \/ \E c \in DeletableCustomers : DeleteCustomer(c)
    \/ Tick

SpecOrphan == InitGroup /\ [][NextOrphan]_vars

\* A pending action that another version of the server wrote to app.db: its
\* action_type is one confirm_action does not know.
LegacyAction ==
    [action_type |-> "set_customer_status",
     payload_json |-> PendingAction_dumps(
         [customer_id |-> 1, new_status |-> <<"O", "f", "f">>, confirm |-> FALSE]),
     status |-> "pending",
     created_at |-> now]

LegacyRow ==
    /\ uuid4(pending) \in PendingIds
    /\ pending' = pending @@ (uuid4(pending) :> LegacyAction)
    /\ UNCHANGED <<customers, tickets, idem, audit, now, env, sink, times, req, out, left, firstResp>>

\* The human-in-the-loop endpoints on a database that holds such rows.
NextLegacy ==
    \/ \E r \in Procs : UpdateCustomerStatus(r)
    \/ \E r \in Procs : UpdateRefresh(r)
    \/ \E r \in Procs : ConfirmRead(r)
    \/ \E r \in Procs : ConfirmReject(r)
    \/ \E r \in Procs : ConfirmApprove(r)
    \/ \E r \in Procs : ConfirmRefresh(r)
    \/ LegacyRow
    \/ Tick

SpecLegacy == InitGroup /\ [][NextLegacy]_vars

\* The server is stopped with no request in flight and started again with
\* another ALLOWED_TOOLS, on the same app.db (allowed_tools reads the
\* environment at every call; the process itself never sets it).
Restart ==
    /\ \A r \in Procs : req[r].pc = "idle"
    /\ env' \in AllowedToolsEnv \ {env}
    /\ UNCHANGED <<customers, tickets, idem, pending, audit, now, sink, times, req, out, left, firstResp>>

\* The human-in-the-loop endpoints of a server whose policy changes between
\* requests.
NextReconfig ==
    \/ \E r \in Procs : UpdateCustomerStatus(r)
    \/ \E r \in Procs : UpdateRefresh(r)
    \/ \E r \in Procs : ConfirmRead(r)
    \/ \E r \in Procs : ConfirmReject(r)
    \/ \E r \in Procs : ConfirmApprove(r)
    \/ \E r \in Procs : ConfirmRefresh(r)
    \/ Restart
    \/ Tick

SpecReconfig == InitGroup /\ [][NextReconfig]_vars

\* ---------------------------------------------------------------- admission
\* API_KEY = os.getenv("API_KEY", "dev-key")
API_KEY == "dev-key"

\* The X-API-Key header: missing, the key, another key.
XApiKeys == {"", API_KEY, "guess"}

RATE_LIMIT_PER_MIN == 60

\* window = 60.0
window == 60

\* if len(q) >= RATE_LIMIT_PER_MIN
TooMany(q) == Len(q) >= RATE_LIMIT_PER_MIN

Admission(pc, x_api_key, t) ==
    Running(pc, "require_api_key", "", [x_api_key |-> x_api_key], [now |-> t], FALSE)

\* require_api_key, a sync dependency run on a worker thread: the check of
\* the key and now = time.time().  The steps after it are the places where
\* another thread can run between two operations on the deque.
RequireApiKey(r) ==
    /\ req[r].pc = "idle"
    /\ \E x_api_key \in XApiKeys :
         IF x_api_key = "" \/ x_api_key # API_KEY
         THEN Return(r,
                 Returned("require_api_key", "", [x_api_key |-> x_api_key], <<>>, 401,
                          [detail |-> "Invalid or missing X-API-Key"], FALSE))
         ELSE Continue(r, Admission("rl_while", x_api_key, now))
    /\ UNCHANGED <<customers, tickets, idem, pending, audit, now, env, sink, times, left, firstResp>>

\* while q and (now - q[0]) > window
RateWhile(r) ==
    /\ req[r].pc = "rl_while"
    /\ Continue(r,
          [req[r] EXCEPT !.pc = IF times # <<>> /\ (req[r].loc.now - times[1]) > window
                                THEN "rl_popleft"
                                ELSE "rl_len"])
    /\ UNCHANGED <<customers, tickets, idem, pending, audit, now, env, sink, times, left, firstResp>>

\* q.popleft(): IndexError on an empty deque, which nothing catches.
RatePopleft(r) ==
    /\ req[r].pc = "rl_popleft"
    /\ IF times = <<>>
       THEN /\ Return(r, Unhandled([req[r] EXCEPT !.pc = "done", !.loc = <<>>], "IndexError"))
            /\ times' = times
       ELSE /\ times' = Tail(times)
            /\ Continue(r, [req[r] EXCEPT !.pc = "rl_while"])
    /\ UNCHANGED <<customers, tickets, idem, pending, audit, now, env, sink, left, firstResp>>

\* if len(q) >= RATE_LIMIT_PER_MIN: raise HTTPException(429)
RateLen(r) ==
    /\ req[r].pc = "rl_len"
    /\ IF TooMany(times)
       THEN Return(r,
               Returned("require_api_key", "", req[r].inp, <<>>, 429,
                        [detail |-> "Rate limit exceeded"], FALSE))
       ELSE Continue(r, [req[r] EXCEPT !.pc = "rl_append"])
    /\ UNCHANGED <<customers, tickets, idem, pending, audit, now, env, sink, times, left, firstResp>>

\* q.append(now): the request is admitted and goes on to its endpoint.
RateAppend(r) ==
    /\ req[r].pc = "rl_append"
    /\ times' = Append(times, req[r].loc.now)
    /\ Return(r, [req[r] EXCEPT !.pc = "admitted", !.loc = <<>>])
    /\ UNCHANGED <<customers, tickets, idem, pending, audit, now, env, sink, left, firstResp>>

\* The window passes: the requests admitted so far are older than it.
Wait ==
    /\ now <= MaxTime
    /\ now' = now + window + 1
    /\ UNCHANGED <<customers, tickets, idem, pending, audit, env, sink, times, req, out, left, firstResp>>

\* The admission of requests, whatever their endpoint.
NextRate ==
    \/ \E r \in Procs : RequireApiKey(r)
    \/ \E r \in Procs : RateWhile(r)
    \/ \E r \in Procs : RatePopleft(r)
    \/ \E r \in Procs : RateLen(r)
    \/ \E r \in Procs : RateAppend(r)
    \/ Wait

SpecRate == InitGroup /\ [][NextRate]_vars

\* ---------------------------------------------------------------- claims
\* C1: once a create_ticket call with Idempotency-Key k has executed
\* successfully, every later create_ticket call with the same key, whatever
\* its payload, returns 200 with the ticket payload of that first response
\* and creates no ticket: it returns from the lookup and never reaches the
\* insert.
C1_ReplayAfterSuccess ==
    /\ \A r \in Procs : ~req[r].late
    /\ (out.tool = CREATE /\ out.late) =>
          /\ out.code = 200
          /\ out.body.ticket = firstResp[out.key][1].ticket
          /\ out.loc.t = 0

\* A call with the key of an earlier successful call and another payload (a
\* customer that does not exist) has returned.
C1_Witness ==
    /\ out.tool = CREATE /\ out.late /\ out.code = 200
    /\ out.inp.customer_id = NoCustomer
    /\ firstResp[out.key][1].ticket.customer_id = 1
    /\ Len(tickets) >= 1

\* The tickets that belong to key k: the one in its stored response and those
\* that calls in flight under k have created.
TicketsOfKey(k) ==
    {idem[i].response_json[1][2][1][2] :
        i \in {j \in 1..Len(idem) : idem[j].tool = CREATE /\ idem[j].key = k}}
    \cup {req[r].loc.t :
        r \in {p \in Procs : req[p].tool = CREATE /\ req[p].key = k /\ req[p].loc.t # 0}}

\* C7: when create_ticket calls with the same new Idempotency-Key run
\* concurrently, at most one ticket is created for the key and every call
\* ends in a well-defined outcome (200, or a 4xx error), never in an
\* unhandled failure (500).
C7_OneWriterWins ==
    /\ \A k \in IdempotencyKeys \ {""} : Cardinality(TicketsOfKey(k)) <= 1
    /\ out.tool = CREATE => out.code \in {200, 403, 404, 409}

\* C8: the idempotency store holds at most one record per (tool, key).
C8_UniqueToolKey ==
    \A i, j \in 1..Len(idem) :
        (idem[i].tool = idem[j].tool /\ idem[i].key = idem[j].key) => i = j

\* Two stores raced on one pair: the second was refused, one record is there.
C8_Witness ==
    /\ out.tool = CREATE /\ out.code = 500
    /\ \E i \in 1..Len(idem) : idem[i].tool = CREATE /\ idem[i].key = out.key

\* C9: a successful create_ticket response has idempotent_replay = TRUE
\* exactly when the call created no ticket and returned the stored response,
\* and FALSE exactly when the call itself created the ticket it returns.
C9_ReplayFlag ==
    (out.tool = CREATE /\ out.code = 200) =>
        /\ out.body.idempotent_replay <=> out.loc.t = 0
        /\ out.loc.t = 0 =>
              /\ out.key # ""
              /\ \E i \in 1..Len(idem) :
                    /\ idem[i].tool = CREATE /\ idem[i].key = out.key
                    /\ IdempotencyRecord_loads(idem[i].response_json).ticket = out.body.ticket
        /\ out.loc.t # 0 =>
              /\ out.loc.t \in 1..Len(tickets)
              /\ out.body.ticket.id = out.loc.t
              /\ tickets[out.loc.t].customer_id = out.inp.customer_id
              /\ tickets[out.loc.t].title = out.body.ticket.title

\* A replayed response and, before it, the response of the call that created
\* the ticket.
C9_Witness ==
    /\ out.tool = CREATE /\ out.code = 200 /\ out.body.idempotent_replay
    /\ Len(tickets) = 1 /\ Len(idem) = 1

\* Worker thread r takes the step.
Steps(r) == req'[r] # req[r]

\* The step sends a response (out'): a handler in flight returns, or a request
\* arrives and is answered in the same step.
Completes ==
    \/ \E r \in Procs : req[r].pc # "idle" /\ req'[r].pc = "idle"
    \/ left' # left /\ req' = req

\* Every customer there is stays as it is (seed_if_empty may insert the first).
CustomersUntouched == \A c \in DOMAIN customers : customers'[c] = customers[c]

\* C2: of two confirm calls on one pending action, whatever their approve
\* flags and however they interleave, at most one succeeds: a call that comes
\* to act when the action is no longer pending fails with 409 and changes no
\* customer and no pending action.
C2_SecondConfirmFails ==
    [][\A r \in Procs :
          (/\ req[r].pc \in {"cf_reject", "cf_approve"}
           /\ Steps(r)
           /\ pending[req[r].inp.pending_action_id].status # "pending")
          => (/\ out'.tool = CONFIRM /\ out'.code = 409
              /\ customers' = customers
              /\ pending' = pending)]_vars

\* C3: update_customer_status with confirm=false for an existing customer
\* returns requires_confirmation=true with the identifier of a pending action
\* it created, which holds the payload; the step that creates a pending
\* action changes no customer, and a customer's status only ever changes in
\* the commit of a pre-confirmed update or of a confirm call with approve=true
\* on a pending action that names that customer and that status.
C3_NoPrematureMutation ==
    /\ [](/\ \A r \in Procs : req[r].tool = UPDATE => req[r].inp.confirm
          /\ (/\ out.tool = UPDATE /\ ~out.inp.confirm
              /\ assert_allowed(env, UPDATE)
              /\ out.inp.customer_id \in DOMAIN customers)
             => (/\ out.code = 200
                 /\ out.body.requires_confirmation
                 /\ out.body.customer = None
                 /\ out.body.pending_action_id # None
                 /\ out.body.pending_action_id[1] \in DOMAIN pending
                 /\ LET pa == pending[out.body.pending_action_id[1]]
                    IN  /\ pa.action_type = UPDATE
                        /\ PendingAction_loads(pa.payload_json) = out.inp))
    /\ [][/\ DOMAIN pending' # DOMAIN pending => CustomersUntouched
          /\ \A c \in DOMAIN customers :
                customers'[c] # customers[c] =>
                  \E r \in Procs :
                     \/ /\ req[r].pc = "idle" /\ req'[r].pc = "ucs_refresh"
                        /\ req'[r].inp.confirm
                        /\ req'[r].inp.customer_id = c
                     \/ /\ req[r].pc = "cf_approve" /\ req'[r].pc = "cf_refresh"
                        /\ req[r].inp.approve
                        /\ LET id == req[r].inp.pending_action_id
                               data == PendingAction_loads(pending[id].payload_json)
                           IN  /\ data.customer_id = c
                               /\ customers'[c].status = Strip(data.new_status)]_vars

\* The pending action is there, the response names it, and the customer still
\* has the status it had.
C3_Witness ==
    /\ out.tool = UPDATE /\ out.code = 200 /\ out.body.requires_confirmation
    /\ pending[out.body.pending_action_id[1]].status = "pending"
    /\ customers[out.inp.customer_id].status = Active
    /\ Strip(out.inp.new_status) # Active

\* C4: a confirm call with approve=false that found its action pending sets
\* that action's status to rejected and changes nothing else: no customer, no
\* ticket, no idempotency record, no other pending action, no other field.
C4_RejectFrame ==
    [][\A r \in Procs :
          (req[r].tool = CONFIRM /\ ~req[r].inp.approve /\ Steps(r)) =>
             LET id == req[r].inp.pending_action_id
             IN  /\ customers' = customers
                 /\ tickets' = tickets
                 /\ idem' = idem
                 /\ pending' = [pending EXCEPT ![id].status = "rejected"]
                 /\ out'.code = 200 /\ out'.body.status = "rejected"]_vars

\* One of two pending actions was rejected; the other is still pending and
\* the customer they name still has its status.
C4_Witness ==
    /\ out.tool = CONFIRM /\ ~out.inp.approve /\ out.code = 200
    /\ pending[out.inp.pending_action_id].status = "rejected"
    /\ \E id \in DOMAIN pending : pending[id].status = "pending"
    /\ customers[1].status = Active

\* C6: a pending action is created with status pending, is never deleted, and
\* its status changes only from pending, to confirmed or to rejected: never
\* again once it is confirmed or rejected.
C6_OneWayStatus ==
    [][/\ \A id \in DOMAIN pending' \ DOMAIN pending : pending'[id].status = "pending"
       /\ \A id \in DOMAIN pending :
             /\ id \in DOMAIN pending'
             /\ pending'[id].status # pending[id].status =>
                   /\ pending[id].status = "pending"
                   /\ pending'[id].status \in {"confirmed", "rejected"}]_vars

\* C10: update_customer_status with confirm=true for an existing customer
\* writes the new status in the call's own commit, creates no pending action,
\* and returns requires_confirmation=false with that customer as db.refresh
\* reads it back.
C10_PreConfirmedRunsNow ==
    /\ []((/\ out.tool = UPDATE /\ out.inp.confirm
           /\ assert_allowed(env, UPDATE)
           /\ out.inp.customer_id \in DOMAIN customers)
          => (/\ out.code = 200
              /\ ~out.body.requires_confirmation
              /\ out.body.pending_action_id = None
              /\ out.body.customer # None
              /\ out.body.customer[1].id = out.inp.customer_id
              /\ out.body.customer[1].name = customers[out.inp.customer_id].name))
    /\ [][\A r \in Procs :
             /\ (req[r].pc = "idle" /\ req'[r].pc = "ucs_refresh") =>
                   /\ customers'[req'[r].inp.customer_id].status =
                         Strip(req'[r].inp.new_status)
                   /\ pending' = pending
             /\ (req[r].pc = "ucs_refresh" /\ Steps(r)) =>
                   /\ out'.body.customer[1].status =
                         customers[req[r].inp.customer_id].status
                   /\ customers' = customers
                   /\ pending' = pending]_vars

\* The pre-confirmed update has returned: the customer has the new status and
\* there is no pending action.
C10_Witness ==
    /\ out.tool = UPDATE /\ out.code = 200 /\ out.inp.confirm
    /\ out.body.customer[1].status = <<"V", "I", "P">>
    /\ customers[1].status = <<"V", "I", "P">>
    /\ DOMAIN pending = {}

\* C5: at every tool endpoint, a call to a tool that is not in the allowed
\* set is refused with 403 in its first step, before the idempotency lookup,
\* the pending action and the execution: it creates no idempotency record, no
\* pending action and no ticket and changes no customer.
C5_DeniedDoesNothing ==
    /\ [](/\ \A r \in Procs : req[r].pc # "idle" => assert_allowed(env, req[r].tool) \/ req[r].tool = CONFIRM
          /\ (out.tool \in DEFAULT_ALLOWED /\ out.tool \notin allowed_tools(env))
                => out.code = 403)
    /\ [][(Completes /\ out'.tool \in DEFAULT_ALLOWED /\ out'.tool \notin allowed_tools(env))
            => (/\ idem' = idem
                /\ pending' = pending
                /\ tickets' = tickets
                /\ CustomersUntouched)]_vars

\* A create_ticket call with an Idempotency-Key was refused after another
\* request had been served.
C5_Witness ==
    /\ out.tool = CREATE /\ out.key # "" /\ out.code = 403
    /\ left = 0
    /\ audit # <<>>

\* The request arrives at its handler in this step.
Arrives == left' # left

\* The handler answers the request in the step the request arrives in.
AnswersAtOnce == Arrives /\ req' = req

\* C11: a confirm request for an id no pending action has is answered 404,
\* one for a pending action whose status is not "pending" is answered 409
\* with that status in the detail, and only a confirm for an action read as
\* pending goes on; the 404 and the 409 leave every pending action, customer,
\* ticket and idempotency record as it was.
C11_ConfirmRefusals ==
    [][/\ (AnswersAtOnce /\ out'.tool = CONFIRM) =>
            LET id == out'.inp.pending_action_id
            IN  /\ out'.code \in {404, 409}
                /\ out'.code = 404 => id \notin DOMAIN pending
                /\ out'.code = 409 =>
                      /\ id \in DOMAIN pending
                      /\ pending[id].status # "pending"
                      /\ out'.body.detail[2] = pending[id].status
                /\ pending' = pending
                /\ tickets' = tickets
                /\ idem' = idem
                /\ CustomersUntouched
       /\ \A r \in Procs :
            (Arrives /\ Steps(r) /\ req'[r].tool = CONFIRM) =>
                /\ req'[r].inp.pending_action_id \in DOMAIN pending
                /\ pending[req'[r].inp.pending_action_id].status = "pending"]_vars

\* A confirm request for an action already confirmed has been answered 409.
C11_Witness ==
    /\ out.tool = CONFIRM /\ out.code = 409
    /\ out.body.detail[2] = "confirmed"
    /\ pending[out.inp.pending_action_id].status = "confirmed"
    /\ customers[1].status # Active

\* C12: every outcome of a tool call or of a confirmation (success, replay,
\* pending, rejection: 200; policy denial: 403) is returned in a step that
\* appends one audit record carrying the tool's name and the time.
C12_EveryOutcomeAudited ==
    [][(Completes /\ out'.code \in {200, 403}) =>
          /\ Len(audit') = Len(audit) + 1
          /\ audit'[Len(audit')].tool = out'.tool
          /\ audit'[Len(audit')].ts = IsoZ(now)]_vars

\* C13: a failure of the audit write never fails the operation: no request
\* is answered with the unhandled error of log_event instead of its normal
\* outcome.
C13_AuditFailureSwallowed ==
    out.code = 500 => out.body.detail # "OSError"

\* C14: the ticket of a create_ticket call with an Idempotency-Key and the
\* idempotency record of that key are written as one unit: whenever a call
\* under a key has ended, answered or not, having created its ticket, the
\* record for (create_ticket, key) exists.
C14_TicketAndRecordAtomic ==
    (out.tool = CREATE /\ out.key # "" /\ out.code # 403 /\ out.loc.t # 0) =>
        uq_tool_key(idem, CREATE, out.key)

\* C15: the commit step of an approve=true confirm on a pending
\* update_customer_status action whose customer is no longer in the table
\* answers 404, sets that action's status to "rejected" and nothing else in
\* pending_actions, and modifies no customer.
C15_MissingCustomerRejects ==
    [][\A r \in Procs :
          LET id == req[r].inp.pending_action_id
              pa == req[r].loc.pa
          IN  (/\ req[r].pc = "cf_approve" /\ Steps(r)
               /\ pa.action_type = UPDATE
               /\ PendingAction_loads(pa.payload_json).customer_id \notin DOMAIN customers)
              => /\ out'.tool = CONFIRM /\ out'.inp = req[r].inp
                 /\ out'.code = 404
                 /\ pending'[id].status = "rejected"
                 /\ \A j \in DOMAIN pending \ {id} : pending'[j] = pending[j]
                 /\ DOMAIN pending' = DOMAIN pending
                 /\ customers' = customers]_vars

\* An approve=true confirm on a pending update of a deleted customer has
\* been answered 404 and the action is rejected.
C15_Witness ==
    /\ out.tool = CONFIRM /\ out.code = 404 /\ out.inp.approve
    /\ out.inp.pending_action_id \in DOMAIN pending
    /\ pending[out.inp.pending_action_id].status = "rejected"
    /\ 1 \notin DOMAIN customers
    /\ audit # <<>>

\* C16: the commit step of an approve=true confirm on a pending action whose
\* action_type the server does not recognise marks the action rejected,
\* modifies no customer, ticket or idempotency record, and answers with a
\* server error (5xx).
C16_UnknownActionType ==
    [][\A r \in Procs :
          (/\ req[r].pc = "cf_approve" /\ Steps(r)
           /\ req[r].loc.pa.action_type # UPDATE)
          => /\ pending'[req[r].inp.pending_action_id].status = "rejected"
             /\ customers' = customers
             /\ tickets' = tickets
             /\ idem' = idem
             /\ out'.tool = CONFIRM
             /\ out'.code >= 500]_vars

\* C17: first write wins in the idempotency store: store_response for a
\* (tool, key) that has a record fails (the request ends with the store's
\* IntegrityError) and leaves the table as it is, and no step of any request
\* changes or removes a record that exists.
C17_FirstWriteWins ==
    [][/\ \A r \in Procs :
            (/\ req[r].pc = "ct_store" /\ Steps(r)
             /\ \E i \in 1..Len(idem) : idem[i].tool = CREATE /\ idem[i].key = req[r].key)
            => /\ idem' = idem
               /\ out'.tool = CREATE /\ out'.key = req[r].key
               /\ out'.code = 500 /\ out'.body.detail = "IntegrityError"
       /\ Len(idem') >= Len(idem)
       /\ \A i \in 1..Len(idem) : idem'[i] = idem[i]]_vars

\* A store for a key that was recorded meanwhile has failed; the record still
\* holds the first writer's ticket, not the ticket of the call that failed.
C17_Witness ==
    /\ out.tool = CREATE /\ out.code = 500 /\ out.key # ""
    /\ out.loc.t = 2
    /\ Len(idem) = 1 /\ idem[1].key = out.key
    /\ IdempotencyRecord_loads(idem[1].response_json).ticket.id = 1

\* C18: an idempotency record is created exactly when a create_ticket call
\* with a non-empty Idempotency-Key executes successfully: the table changes
\* only in the step that ends such a call with 200 (not a replay), by one
\* record holding the call's key and the ticket it returns, and every such
\* call ends in a step that adds a record; a call is answered by a replay
\* only if its key has a record, so a call whose key has none (after a failed
\* call with that key, say) executes afresh.
C18_RecordIffKeyedSuccess ==
    [][/\ idem' # idem =>
            \E r \in Procs :
               /\ req[r].pc = "ct_store" /\ Steps(r)
               /\ req[r].key # ""
               /\ out'.tool = CREATE /\ out'.key = req[r].key
               /\ out'.code = 200 /\ ~out'.body.idempotent_replay
               /\ Len(idem') = Len(idem) + 1
               /\ SubSeq(idem', 1, Len(idem)) = idem
               /\ idem'[Len(idem')].tool = CREATE
               /\ idem'[Len(idem')].key = req[r].key
               /\ IdempotencyRecord_loads(idem'[Len(idem')].response_json).ticket
                     = out'.body.ticket
       /\ (Completes /\ out'.tool = CREATE /\ out'.code = 200 /\ out'.key # "")
            => IF out'.body.idempotent_replay
               THEN /\ idem' = idem
                    /\ \E i \in 1..Len(idem) : idem[i].tool = CREATE /\ idem[i].key = out'.key
               ELSE Len(idem') = Len(idem) + 1]_vars

\* A call with key k failed (customer not found) and left no record for k,
\* and another call with k is past the lookup and has created its ticket.
C18_Witness ==
    /\ out.tool = CREATE /\ out.code = 404 /\ out.key # ""
    /\ ~ \E i \in 1..Len(idem) : idem[i].key = out.key
    /\ \E r \in Procs :
          /\ req[r].pc = "ct_store" /\ req[r].key = out.key
          /\ req[r].loc.t = 1

\* C19: confirm is not gated by the policy: whatever ALLOWED_TOOLS is when
\* the confirm runs, every step of a confirm request has the answer and the
\* pending-action and customer state that the pending actions, the customers
\* and the request alone determine (404 for an unknown id, 409 for a resolved
\* action, else the reject or the approve of the stored payload), so two runs
\* that differ only in the allowed set end the same way.
C19_ConfirmIgnoresPolicy ==
    [][/\ (AnswersAtOnce /\ out'.tool = CONFIRM) =>
            LET p == out'.inp
                id == p.pending_action_id
            IN  /\ pending' = pending
                /\ customers' = seed_if_empty(customers)
                /\ IF id \notin DOMAIN pending
                   THEN out' = Returned(CONFIRM, "", p, <<>>, 404,
                                        [detail |-> "Pending action not found"], FALSE)
                   ELSE /\ pending[id].status # "pending"
                        /\ out' = Returned(CONFIRM, "", p, <<>>, 409,
                                     [detail |-> <<"Pending action already", pending[id].status>>],
                                     FALSE)
       /\ \A r \in Procs :
            (Arrives /\ Steps(r) /\ req'[r].tool = CONFIRM) =>
                LET p == req'[r].inp
                    id == p.pending_action_id
                IN  /\ id \in DOMAIN pending
                    /\ pending[id].status = "pending"
                    /\ req'[r] = Running(IF p.approve THEN "cf_approve" ELSE "cf_reject",
                                         CONFIRM, "", p, [pa |-> pending[id]], FALSE)
                    /\ pending' = pending
                    /\ customers' = seed_if_empty(customers)
       /\ \A r \in Procs :
            (req[r].tool = CONFIRM /\ Steps(r)) =>
                LET p == req[r].inp
                    id == p.pending_action_id
                IN  CASE req[r].pc = "cf_reject" ->
                           /\ pending' = [pending EXCEPT ![id].status = "rejected"]
                           /\ customers' = customers
                           /\ out' = Returned(CONFIRM, "", p, <<>>, 200,
                                              [ok |-> TRUE, status |-> "rejected"], FALSE)
                      [] req[r].pc = "cf_approve" ->
                           LET data == PendingAction_loads(req[r].loc.pa.payload_json)
                           IN  /\ customers' = [customers EXCEPT
                                      ![data.customer_id].status = Strip(data.new_status)]
                               /\ pending' = [pending EXCEPT ![id].status = "confirmed"]
                               /\ req'[r].pc = "cf_refresh"
                               /\ req'[r].loc.customer_id = data.customer_id
                      [] req[r].pc = "cf_refresh" ->
                           /\ pending' = pending
                           /\ customers' = customers
                           /\ out' = Returned(CONFIRM, "", p, <<>>, 200,
                                        [ok |-> TRUE, status |-> "confirmed",
                                         customer |-> CustomerOut(customers,
                                                                  req[r].loc.customer_id)],
                                        FALSE)]_vars

\* An approve runs, past its commit, on a server whose policy does not allow
\* update_customer_status.
C19_Witness ==
    /\ ~assert_allowed(env, UPDATE)
    /\ \E r \in Procs :
          /\ req[r].pc = "cf_refresh" /\ req[r].inp.approve
          /\ pending[req[r].inp.pending_action_id].status = "confirmed"
          /\ customers[req[r].loc.customer_id].status # Active

\* The step in which request r commits a status for a customer: the commit
\* of a pre-confirmed update, or of an approve on a stored payload.
Applies(r) ==
    \/ req[r].pc = "idle" /\ req'[r].pc = "ucs_refresh"
    \/ req[r].pc = "cf_approve" /\ req'[r].pc = "cf_refresh"

\* The payload that step applies.
Applied(r) ==
    IF req'[r].tool = UPDATE
    THEN req'[r].inp
    ELSE PendingAction_loads(pending[req[r].inp.pending_action_id].payload_json)

\* C20 as stated: a successful approve sets the status of the customer named
\* in the stored payload to the new_status captured at the proposal.
C20_ApproveSetsNewStatus ==
    [][\A r \in Procs :
          (req[r].pc = "cf_approve" /\ req'[r].pc = "cf_refresh") =>
              customers'[Applied(r).customer_id].status = Applied(r).new_status]_vars

\* C20, amended: a pending action keeps the payload it was proposed with; a
\* successful approve sets the status of exactly the customer named in that
\* payload to its new_status with leading and trailing whitespace stripped,
\* whatever the status was, and changes no other customer; and a customer's
\* status changes only in the commit of an approve or of a pre-confirmed
\* update naming that customer, to the stripped new_status of that request,
\* so it is always the one of the commit applied last.  (The first request
\* served seeds the customers table.)
C20_ApproveSetsStrippedStatus ==
    [][/\ \A id \in DOMAIN pending :
            /\ id \in DOMAIN pending'
            /\ pending'[id].payload_json = pending[id].payload_json
       /\ \A r \in Procs :
            Applies(r) =>
                /\ Applied(r).customer_id \in DOMAIN customers'
                /\ customers'[Applied(r).customer_id].status = Strip(Applied(r).new_status)
                /\ DOMAIN customers' = DOMAIN seed_if_empty(customers)
                /\ \A c \in DOMAIN customers' \ {Applied(r).customer_id} :
                      customers'[c] = seed_if_empty(customers)[c]
       /\ \A c \in DOMAIN customers :
            customers'[c] # customers[c] =>
                \E r \in Procs : Applies(r) /\ Applied(r).customer_id = c]_vars

\* An approve has overwritten the status a pre-confirmed update had set: the
\* customer has the stripped new_status of the approved payload, the other
\* customers are as seeded.
C20_Witness ==
    /\ out.tool = CONFIRM /\ out.code = 200 /\ out.inp.approve
    /\ PendingAction_loads(pending[out.inp.pending_action_id].payload_json).new_status
          = <<" ", "V", "I", "P">>
    /\ customers[1].status = <<"V", "I", "P">>
    /\ \E i \in 1..Len(audit) :
          /\ audit[i].tool = UPDATE
          /\ "status" \in DOMAIN audit[i].output
          /\ audit[i].output.status = <<"O", "f", "f">>
    /\ \A c \in DOMAIN customers \ {1} : customers[c].status = Active

\* C21: an update_customer_status call, allowed by the policy, for a customer
\* id that no customer has is answered 404 in the step it arrives in,
\* whatever its confirm flag, and leaves the pending actions as they are; a
\* call goes on past that step only for a customer that exists, and every
\* pending action that appears holds the id of a customer that is in the
\* table at that moment.
C21_NoActionForMissingCustomer ==
    [][/\ (/\ AnswersAtOnce /\ out'.tool = UPDATE
           /\ assert_allowed(env, UPDATE)
           /\ out'.inp.customer_id \notin DOMAIN seed_if_empty(customers))
          => /\ out'.code = 404
             /\ pending' = pending
             /\ customers' = seed_if_empty(customers)
       /\ \A r \in Procs :
            (Arrives /\ Steps(r) /\ req'[r].tool = UPDATE) =>
                req'[r].inp.customer_id \in DOMAIN seed_if_empty(customers)
       /\ \A id \in DOMAIN pending' \ DOMAIN pending :
            PendingAction_loads(pending'[id].payload_json).customer_id
                \in DOMAIN customers']_vars

\* A proposal (confirm=false) for a customer that does not exist has been
\* answered 404 after a proposal for an existing one had been stored.
C21_Witness ==
    /\ out.tool = UPDATE /\ out.code = 404 /\ ~out.inp.confirm
    /\ out.inp.customer_id \notin DOMAIN customers
    /\ DOMAIN pending = {1}

\* The admitted requests of the key whose times lie in the window that ends
\* now.
InWindow == {i \in 1..Len(times) : now - times[i] <= window}

\* C22: for the valid key at most RATE_LIMIT_PER_MIN requests are admitted
\* within a window of 60 seconds, whatever the interleaving of the requests;
\* a request that finds that many admitted requests in the window is refused
\* with 429 and is not counted; a request with a missing or wrong key is
\* refused with 401, goes no further and leaves the counter as it is.
C22_AtMostLimitPerWindow ==
    /\ [](Cardinality(InWindow) <= RATE_LIMIT_PER_MIN)
    /\ [][/\ \A r \in Procs :
                (/\ req[r].pc = "rl_len" /\ Steps(r)
                 /\ Cardinality(InWindow) >= RATE_LIMIT_PER_MIN)
                => (out'.code = 429 /\ times' = times)
          /\ \A r \in Procs :
                (req[r].pc = "idle" /\ Steps(r))
                => (req'[r].inp.x_api_key = API_KEY /\ times' = times)
          /\ (out' # out /\ out'.code = 401)
                => (out'.inp.x_api_key # API_KEY /\ times' = times)]_vars

====
